---- MODULE Spec2Model ----
(***************************************************************************)
(* pystiche.enc.models.utils: select_url and ModelMultiLayerEncoder.       *)
(*                                                                         *)
(* A state dictionary is a Python dict, i.e. an insertion-ordered mapping: *)
(* it is modelled as a sequence of <<key, value>> pairs with distinct      *)
(* keys.  Parameter names of the wrapped model and the descriptive names   *)
(* of the encoder are both Python strings and are drawn from one universe. *)
(***************************************************************************)
EXTENDS Integers, Sequences, FiniteSets, TLC

\* Bounds of the model.
MaxLen == 2

\* Parameter names (one universe for the wrapped model's names and the
\* descriptive ones): Names for the key remapping taken alone, LoadNames for
\* loading into a constructed encoder, LifeNames for the whole life cycle.
Names == {"a", "b", "c"}
LoadNames == {"a", "b"}
LifeNames == {"a"}
\* Tensors; Untrained is what a parameter holds before any load.
Vals == {"t1", "t2"}
Untrained == "t0"
Frameworks == {"torch", "caffe"}
FrameworkLabels == Frameworks \cup {"unknown"}

VARIABLES
    subclass,   \* what the concrete subclass supplies: its parameters, key map and URL table
    pc,         \* "new" | "idle" | "returned" | "failed"
    encoder,    \* the encoder's fields (self)
    pre,        \* the encoder's fields when the last call started
    last        \* the last call: operation, arguments, exception raised, value returned

vars == <<subclass, pc, encoder, pre, last>>

(***************************************************************************)
(* Python dict primitives.                                                 *)
(***************************************************************************)
DictKeys(d) == [i \in 1..Len(d) |-> d[i][1]]

KeySet(d) == {d[i][1] : i \in 1..Len(d)}

DictGet(d, k) == d[CHOOSE i \in 1..Len(d) : d[i][1] = k][2]

\* d[k] = v: an existing key keeps its position and takes the new value.
DictSet(d, k, v) ==
    IF k \in KeySet(d)
        THEN [i \in 1..Len(d) |-> IF d[i][1] = k THEN <<k, v>> ELSE d[i]]
        ELSE Append(d, <<k, v>>)

Range(s) == {s[i] : i \in 1..Len(s)}

NoDup(s) == \A i, j \in 1..Len(s) : i # j => s[i] # s[j]

\* Input spaces.
StateDictsOver(N) ==
    UNION {{d \in [1..n -> N \X Vals] : NoDup(DictKeys(d))} : n \in 0..MaxLen}

KeyMapsOver(N) == UNION {[D -> N] : D \in SUBSET N}

ParamListsOver(N) ==
    UNION {{s \in [1..n -> N] : NoDup(s)} : n \in 0..Cardinality(N)}

UrlOf(fw) == "http://download/" \o fw

\* The URL tables of the subclasses, and the ones select_url is tried on.
UrlTables == {[fw \in D |-> UrlOf(fw)] : D \in SUBSET Frameworks}

SelectUrlTables ==
    UNION {[D -> {UrlOf(fw) : fw \in Frameworks}] : D \in SUBSET FrameworkLabels}

(***************************************************************************)
(* select_url                                                              *)
(***************************************************************************)
\* str(key) for a key that is a str.
Str(key) == key

Repr(key) == "'" \o key \o "'"

Tagged(key) == "framework=" \o key

\* The optional format argument: <<>> is None, <<f>> a callable.
FormatArgs == {<<>>, <<"repr">>, <<"tagged">>}

ApplyFormat(f, key) ==
    CASE f = "str" -> Str(key)
      [] f = "repr" -> Repr(key)
      [] f = "tagged" -> Tagged(key)

\* select_url with the format argument ignored.
select_url_unformatted(urls, key, format) ==
    IF key \in DOMAIN urls
        THEN [raised |-> "none", value |-> urls[key], message |-> <<>>]
        ELSE [raised |-> "RuntimeError", value |-> "",
              message |-> <<"No URL is available for\n\n", Str(key)>>]

select_url(urls, key, format) ==
    LET fmt == IF format = <<>> THEN "str" ELSE format[1]
    IN  IF key \in DOMAIN urls
            THEN [raised |-> "none", value |-> urls[key], message |-> <<>>]
            ELSE [raised |-> "RuntimeError", value |-> "",
                  message |-> <<"No URL is available for\n\n", ApplyFormat(fmt, key)>>]

(***************************************************************************)
(* What the encoder inherits and what its subclass supplies.               *)
(***************************************************************************)
\* state_dict_url(framework): the subclass looks the framework up in its URL
\* table and raises RuntimeError when no state_dict is available.
state_dict_url(urls, fw) == select_url(urls, fw, <<>>)

\* collect_modules(inplace): the subclass' named modules and the key map.
collect_modules(sub, inplace) ==
    [modules |-> [i \in 1..Len(sub.params) |->
                     [name |-> sub.params[i], kind |-> "parameter",
                      arg |-> IF inplace THEN "inplace" ELSE "copy"]],
     key_map |-> sub.key_map]

\* get_preprocessor(framework)
get_preprocessor(fw) == [name |-> "preprocessing", kind |-> "preprocessing", arg |-> fw]

\* The parameter names of the encoder, in registration order.
ParamNames(mods) ==
    LET ps == SelectSeq(mods, LAMBDA m : m.kind = "parameter")
    IN  [i \in 1..Len(ps) |-> ps[i].name]

\* The load routine the encoder inherits (super().load_state_dict): copies
\* every entry whose key names a parameter, reports the parameters without
\* an entry as missing and the entries without a parameter as unexpected,
\* and raises in strict mode when either list is non-empty.
SuperLoadStateDict(names, w, state_dict, strict) ==
    LET missing == SelectSeq(names, LAMBDA p : p \notin KeySet(state_dict))
        unexpected == SelectSeq(DictKeys(state_dict), LAMBDA k : k \notin Range(names))
        loaded == [p \in DOMAIN w |->
                      IF p \in KeySet(state_dict) THEN DictGet(state_dict, p) ELSE w[p]]
    IN  [raised |-> IF strict /\ (missing # <<>> \/ unexpected # <<>>)
                        THEN "RuntimeError" ELSE "none",
         missing_keys |-> missing,
         unexpected_keys |-> unexpected,
         weights |-> loaded]

(***************************************************************************)
(* ModelMultiLayerEncoder                                                  *)
(***************************************************************************)
\* The loop with unexpected keys pushed to the front of the list.
RECURSIVE MapLoop_prepend(_, _, _, _)
MapLoop_prepend(key_map, state_dict, i, acc) ==
    IF i > Len(state_dict) THEN acc
    ELSE LET key == state_dict[i][1]
             value == state_dict[i][2]
         IN  IF key \in DOMAIN key_map
                 THEN MapLoop_prepend(key_map, state_dict, i + 1,
                        [acc EXCEPT !.remapped_state_dict = DictSet(@, key_map[key], value)])
                 ELSE MapLoop_prepend(key_map, state_dict, i + 1,
                        [acc EXCEPT !.unexpected_keys = <<key>> \o @])

RECURSIVE MapLoop(_, _, _, _)
MapLoop(key_map, state_dict, i, acc) ==
    IF i > Len(state_dict) THEN acc
    ELSE LET key == state_dict[i][1]
             value == state_dict[i][2]
         IN  IF key \in DOMAIN key_map
                 THEN MapLoop(key_map, state_dict, i + 1,
                        [acc EXCEPT !.remapped_state_dict = DictSet(@, key_map[key], value)])
                 ELSE MapLoop(key_map, state_dict, i + 1,
                        [acc EXCEPT !.unexpected_keys = Append(@, key)])

\* The remapping with the known keys stored under their old names.
RECURSIVE MapLoop_unmapped(_, _, _, _)
MapLoop_unmapped(key_map, state_dict, i, acc) ==
    IF i > Len(state_dict) THEN acc
    ELSE LET key == state_dict[i][1]
             value == state_dict[i][2]
         IN  IF key \in DOMAIN key_map
                 THEN MapLoop_unmapped(key_map, state_dict, i + 1,
                        [acc EXCEPT !.remapped_state_dict = DictSet(@, key, value)])
                 ELSE MapLoop_unmapped(key_map, state_dict, i + 1,
                        [acc EXCEPT !.unexpected_keys = Append(@, key)])

map_state_dict_keys_unmapped(key_map, state_dict) ==
    MapLoop_unmapped(key_map, state_dict, 1,
                     [remapped_state_dict |-> <<>>, unexpected_keys |-> <<>>])

map_state_dict_keys(key_map, state_dict) ==
    MapLoop(key_map, state_dict, 1,
            [remapped_state_dict |-> <<>>, unexpected_keys |-> <<>>])

\* Variants of load_state_dict, each with one slip.
LoadWith(self, state_dict, strict, map_names, fw, remap_first, hand_over_input, flags_first) ==
    LET mapped == IF map_names
                      THEN map_state_dict_keys(self.state_dict_key_map, state_dict)
                      ELSE [remapped_state_dict |-> state_dict, unexpected_keys |-> <<>>]
        keys == SuperLoadStateDict(ParamNames(self.modules), self.weights,
                                   IF hand_over_input THEN state_dict
                                                      ELSE mapped.remapped_state_dict,
                                   strict)
        early == IF flags_first THEN [self EXCEPT !.pretrained = TRUE, !.framework = fw]
                                ELSE self
    IN  IF keys.raised # "none"
            THEN [raised |-> keys.raised, missing_keys |-> <<>>, unexpected_keys |-> <<>>,
                  self |-> [early EXCEPT !.weights = keys.weights]]
            ELSE [raised |-> "none",
                  missing_keys |-> keys.missing_keys,
                  unexpected_keys |-> IF remap_first
                                          THEN mapped.unexpected_keys \o keys.unexpected_keys
                                          ELSE keys.unexpected_keys \o mapped.unexpected_keys,
                  self |-> [self EXCEPT !.weights = keys.weights,
                                        !.pretrained = TRUE,
                                        !.framework = fw]]

\* The keys found by the remapping put in front of the inherited routine's.
load_state_dict_remap_first(self, state_dict, strict, map_names, fw) ==
    LoadWith(self, state_dict, strict, map_names, fw, TRUE, FALSE, FALSE)

\* The incoming dictionary handed to the inherited routine, not the remapped one.
load_state_dict_unmapped(self, state_dict, strict, map_names, fw) ==
    LoadWith(self, state_dict, strict, map_names, fw, FALSE, TRUE, FALSE)

\* pretrained and framework recorded before the inherited routine is called.
load_state_dict_flags_first(self, state_dict, strict, map_names, fw) ==
    LoadWith(self, state_dict, strict, map_names, fw, FALSE, FALSE, TRUE)

\* Weights of unknown origin never loaded strictly.
load_state_dict_lenient_unknown(self, state_dict, strict, map_names, fw) ==
    LoadWith(self, state_dict, strict /\ fw # "unknown", map_names, fw, FALSE, FALSE, FALSE)

\* self is the record of the encoder's fields; the result carries the
\* exception raised ("none" when the call returns), the returned
\* _IncompatibleKeys and the fields after the call.
load_state_dict(self, state_dict, strict, map_names, fw) ==
    LET mapped == IF map_names
                      THEN map_state_dict_keys(self.state_dict_key_map, state_dict)
                      ELSE [remapped_state_dict |-> state_dict, unexpected_keys |-> <<>>]
        keys == SuperLoadStateDict(ParamNames(self.modules), self.weights,
                                   mapped.remapped_state_dict, strict)
    IN  IF keys.raised # "none"
            THEN [raised |-> keys.raised, missing_keys |-> <<>>, unexpected_keys |-> <<>>,
                  self |-> [self EXCEPT !.weights = keys.weights]]
            ELSE [raised |-> "none",
                  missing_keys |-> keys.missing_keys,
                  unexpected_keys |-> keys.unexpected_keys \o mapped.unexpected_keys,
                  self |-> [self EXCEPT !.weights = keys.weights,
                                        !.pretrained = TRUE,
                                        !.framework = fw]]

\* load_state_dict_from_url with the framework not passed on to load_state_dict,
\* which then records its default.
load_state_dict_from_url_unlabelled(self, urls, fw, strict, map_names, download) ==
    LET url == state_dict_url(urls, fw)
    IN  IF url.raised # "none"
            THEN [raised |-> url.raised, message |-> url.message,
                  downloaded |-> <<>>, self |-> self]
        ELSE IF download = <<>>
            THEN [raised |-> "DownloadError", message |-> <<>>,
                  downloaded |-> <<url.value>>, self |-> self]
        ELSE LET r == LoadWith(self, download[1], strict, map_names, "unknown",
                               FALSE, FALSE, FALSE)
             IN  [raised |-> r.raised, message |-> <<>>,
                  downloaded |-> <<url.value>>, self |-> r.self]

\* download is what hub.load_state_dict_from_url does when it is called:
\* <<>> when it fails, <<state_dict>> when it delivers one.
load_state_dict_from_url(self, urls, fw, strict, map_names, download) ==
    LET url == state_dict_url(urls, fw)
    IN  IF url.raised # "none"
            THEN [raised |-> url.raised, message |-> url.message,
                  downloaded |-> <<>>, self |-> self]
        ELSE IF download = <<>>
            THEN [raised |-> "DownloadError", message |-> <<>>,
                  downloaded |-> <<url.value>>, self |-> self]
        ELSE LET r == load_state_dict(self, download[1], strict, map_names, fw)
             IN  [raised |-> r.raised, message |-> <<>>,
                  downloaded |-> <<url.value>>, self |-> r.self]

\* The dictionary _properties adds to the (here empty) one of the base class.
properties(self) ==
    (IF ~self.pretrained
         THEN {<<"pretrained", "False">>}
         ELSE {<<"framework", self.framework>>})
    \cup (IF ~self.internal_preprocessing
              THEN {<<"internal_preprocessing", "False">>} ELSE {})
    \cup (IF self.allow_inplace THEN {<<"allow_inplace", "True">>} ELSE {})

\* The optional constructor arguments: <<>> when the caller does not pass one.
Optional(S) == {<<>>} \cup {<<x>> : x \in S}

OrDefault(arg, default) == IF arg = <<>> THEN default ELSE arg[1]

init(sub, a_pretrained, a_framework, a_internal_preprocessing, a_allow_inplace, download) ==
    LET p == OrDefault(a_pretrained, TRUE)
        fw == OrDefault(a_framework, "torch")
        ip == OrDefault(a_internal_preprocessing, TRUE)
        ai == OrDefault(a_allow_inplace, TRUE)
        cm == collect_modules(sub, ai)
        mods == IF ip THEN <<get_preprocessor(fw)>> \o cm.modules ELSE cm.modules
        obj == [pretrained |-> p,
                framework |-> fw,
                internal_preprocessing |-> ip,
                allow_inplace |-> ai,
                state_dict_key_map |-> cm.key_map,
                modules |-> mods,
                weights |-> [n \in Range(ParamNames(mods)) |-> Untrained]]
    IN  IF p
            THEN LET r == load_state_dict_from_url(obj, sub.urls, fw, TRUE, TRUE, download)
                 IN  [raised |-> r.raised, downloaded |-> r.downloaded, self |-> r.self]
            ELSE [raised |-> "none", downloaded |-> <<>>, self |-> obj]

(***************************************************************************)
(* The state machine: a caller constructs one encoder and then calls its   *)
(* methods and select_url in any order.  A call leads to "returned", where *)
(* last holds what the caller observes, and Return hands control back.     *)
(***************************************************************************)
NoEncoder ==
    [pretrained |-> FALSE, framework |-> "", internal_preprocessing |-> FALSE,
     allow_inplace |-> FALSE, state_dict_key_map |-> <<>>, modules |-> <<>>,
     weights |-> <<>>]

NoCall == [op |-> "none", args |-> <<>>, raised |-> "none", ret |-> <<>>]

Downloads(N) == Optional(StateDictsOver(N))

Subclasses(N, tables) ==
    [params : ParamListsOver(N), key_map : KeyMapsOver(N), urls : tables]

Construct(N) ==
    /\ pc = "new"
    /\ \E a_pretrained \in Optional(BOOLEAN), a_framework \in Optional(Frameworks),
          a_internal_preprocessing \in Optional(BOOLEAN),
          a_allow_inplace \in Optional(BOOLEAN), download \in Downloads(N) :
          LET r == init(subclass, a_pretrained, a_framework, a_internal_preprocessing,
                        a_allow_inplace, download)
          IN  /\ encoder' = r.self
              /\ pc' = IF r.raised = "none" THEN "returned" ELSE "failed"
              /\ last' = [op |-> "__init__",
                          args |-> [pretrained |-> a_pretrained,
                                    framework |-> a_framework,
                                    internal_preprocessing |-> a_internal_preprocessing,
                                    allow_inplace |-> a_allow_inplace],
                          raised |-> r.raised,
                          ret |-> [downloaded |-> r.downloaded]]
    /\ pre' = encoder
    /\ UNCHANGED subclass

\* The remapping with the entries taken out of the key map as they are used.
MapStateDictKeys_consuming(N) ==
    /\ pc = "idle"
    /\ \E state_dict \in StateDictsOver(N) :
          /\ last' = [op |-> "_map_state_dict_keys",
                      args |-> [state_dict |-> state_dict],
                      raised |-> "none",
                      ret |-> map_state_dict_keys(encoder.state_dict_key_map, state_dict)]
          /\ encoder' = [encoder EXCEPT !.state_dict_key_map =
                            [k \in DOMAIN @ \ KeySet(state_dict) |-> @[k]]]
    /\ pc' = "returned"
    /\ pre' = encoder
    /\ UNCHANGED subclass

MapStateDictKeys(N) ==
    /\ pc = "idle"
    /\ \E state_dict \in StateDictsOver(N) :
          last' = [op |-> "_map_state_dict_keys",
                   args |-> [state_dict |-> state_dict],
                   raised |-> "none",
                   ret |-> map_state_dict_keys(encoder.state_dict_key_map, state_dict)]
    /\ pc' = "returned"
    /\ pre' = encoder
    /\ UNCHANGED <<subclass, encoder>>

LoadStateDict(N) ==
    /\ pc = "idle"
    /\ \E state_dict \in StateDictsOver(N), strict \in BOOLEAN,
          map_names \in BOOLEAN, fw \in FrameworkLabels :
          LET r == load_state_dict(encoder, state_dict, strict, map_names, fw)
          IN  /\ encoder' = r.self
              /\ last' = [op |-> "load_state_dict",
                          args |-> [state_dict |-> state_dict, strict |-> strict,
                                    map_names |-> map_names, framework |-> fw],
                          raised |-> r.raised,
                          ret |-> [missing_keys |-> r.missing_keys,
                                   unexpected_keys |-> r.unexpected_keys]]
    /\ pc' = "returned"
    /\ pre' = encoder
    /\ UNCHANGED subclass

LoadStateDictFromUrl(N) ==
    /\ pc = "idle"
    /\ \E fw \in Frameworks, strict \in BOOLEAN, map_names \in BOOLEAN,
          download \in Downloads(N) :
          LET r == load_state_dict_from_url(encoder, subclass.urls, fw, strict,
                                            map_names, download)
          IN  /\ encoder' = r.self
              /\ last' = [op |-> "load_state_dict_from_url",
                          args |-> [framework |-> fw, strict |-> strict,
                                    map_names |-> map_names],
                          raised |-> r.raised,
                          ret |-> [downloaded |-> r.downloaded, message |-> r.message]]
    /\ pc' = "returned"
    /\ pre' = encoder
    /\ UNCHANGED subclass

Properties ==
    /\ pc = "idle"
    /\ last' = [op |-> "_properties", args |-> <<>>, raised |-> "none",
                ret |-> properties(encoder)]
    /\ pc' = "returned"
    /\ pre' = encoder
    /\ UNCHANGED <<subclass, encoder>>

SelectUrl ==
    /\ pc = "idle"
    /\ \E urls \in SelectUrlTables, key \in FrameworkLabels, format \in FormatArgs :
          LET r == select_url(urls, key, format)
          IN  last' = [op |-> "select_url",
                       args |-> [urls |-> urls, key |-> key, format |-> format],
                       raised |-> r.raised,
                       ret |-> [value |-> r.value, message |-> r.message]]
    /\ pc' = "returned"
    /\ pre' = encoder
    /\ UNCHANGED <<subclass, encoder>>

\* The call is over: control is back with the caller.
Return ==
    /\ pc = "returned"
    /\ pc' = "idle"
    /\ last' = NoCall
    /\ pre' = encoder
    /\ UNCHANGED <<subclass, encoder>>

\* The life cycle of an encoder, from its construction on.
Init ==
    /\ subclass \in Subclasses(LifeNames, UrlTables)
    /\ pc = "new"
    /\ encoder = NoEncoder
    /\ pre = NoEncoder
    /\ last = NoCall

Next ==
    \/ Construct(LifeNames)
    \/ MapStateDictKeys(LifeNames)
    \/ LoadStateDict(LifeNames)
    \/ LoadStateDictFromUrl(LifeNames)
    \/ Properties
    \/ Return

Spec == Init /\ [][Next]_vars

\* An encoder built with pretrained=False and the other arguments left out.
Untrained_encoder(sub) == init(sub, <<FALSE>>, <<>>, <<>>, <<>>, <<>>).self

\* Loading state dictionaries into a constructed encoder.
InitLoad ==
    /\ subclass \in Subclasses(LoadNames, {<<>>})
    /\ pc = "idle"
    /\ encoder = Untrained_encoder(subclass)
    /\ pre = encoder
    /\ last = NoCall

NextLoad ==
    \/ LoadStateDict(LoadNames)
    \/ Return

SpecLoad == InitLoad /\ [][NextLoad]_vars

\* The key remapping taken alone, around any key map.
InitMap ==
    /\ subclass \in [params : {<<>>}, key_map : KeyMapsOver(Names), urls : {<<>>}]
    /\ pc = "idle"
    /\ encoder = Untrained_encoder(subclass)
    /\ pre = encoder
    /\ last = NoCall

NextMap ==
    \/ MapStateDictKeys(Names)
    \/ Return

SpecMap == InitMap /\ [][NextMap]_vars

\* select_url taken alone: it is a function of the module, not of an encoder.
InitUrl ==
    /\ subclass = [params |-> <<>>, key_map |-> <<>>, urls |-> <<>>]
    /\ pc = "idle"
    /\ encoder = NoEncoder
    /\ pre = NoEncoder
    /\ last = NoCall

NextUrl ==
    \/ SelectUrl
    \/ Return

SpecUrl == InitUrl /\ [][NextUrl]_vars

(***************************************************************************)
(* Properties.  In a "returned" state, last holds the call that has just   *)
(* been made and pre the encoder it was made on.                           *)
(***************************************************************************)
Injective(f) == \A x, y \in DOMAIN f : f[x] = f[y] => x = y

\* The keys of a dictionary, in order, that are outside a set.
KeysOutside(d, S) == SelectSeq(DictKeys(d), LAMBDA k : k \notin S)

Mapped == last.op = "_map_state_dict_keys"

MapIn == last.args.state_dict

MapKeyMap == pre.state_dict_key_map

MapOut == last.ret.remapped_state_dict

\* C1 as stated: for a weight dictionary whose key set is exactly the domain
\* of the name map, the remapped dictionary has as many entries as the input,
\* holds under name_map[k] the value the input holds under k, and the
\* unexpected-keys list is empty.
C1_AsStated ==
    (Mapped /\ KeySet(MapIn) = DOMAIN MapKeyMap) =>
        /\ Len(MapOut) = Len(MapIn)
        /\ \A k \in KeySet(MapIn) :
              /\ MapKeyMap[k] \in KeySet(MapOut)
              /\ DictGet(MapOut, MapKeyMap[k]) = DictGet(MapIn, k)
        /\ last.ret.unexpected_keys = <<>>

\* C1 amended: for a weight dictionary whose key set is exactly the domain of
\* the name map, the unexpected-keys list is empty and the keys of the
\* remapped dictionary are the names name_map[k] of the input keys, each
\* holding the value of the last input key with that name; when the name map
\* is injective the remapped dictionary has as many entries as the input and
\* holds under name_map[k] the value the input holds under k.
C1_Remap ==
    (Mapped /\ KeySet(MapIn) = DOMAIN MapKeyMap) =>
        /\ last.ret.unexpected_keys = <<>>
        /\ KeySet(MapOut) = {MapKeyMap[k] : k \in KeySet(MapIn)}
        /\ NoDup(DictKeys(MapOut))
        /\ \A n \in KeySet(MapOut) :
              LET i == CHOOSE i \in 1..Len(MapIn) :
                          /\ MapKeyMap[MapIn[i][1]] = n
                          /\ \A j \in 1..Len(MapIn) :
                                MapKeyMap[MapIn[j][1]] = n => j <= i
              IN  DictGet(MapOut, n) = MapIn[i][2]
        /\ Injective(MapKeyMap) =>
              /\ Len(MapOut) = Len(MapIn)
              /\ \A k \in KeySet(MapIn) :
                    DictGet(MapOut, MapKeyMap[k]) = DictGet(MapIn, k)

\* An injective map that renames, applied to two entries with different values.
C1_Witness ==
    /\ Mapped
    /\ KeySet(MapIn) = DOMAIN MapKeyMap
    /\ Len(MapIn) = 2
    /\ Injective(MapKeyMap)
    /\ \A k \in DOMAIN MapKeyMap : MapKeyMap[k] # k
    /\ MapIn[1][2] # MapIn[2][2]
    /\ Len(MapOut) = 2

\* C2 as stated: for a weight dictionary with keys outside the name map's
\* domain, the unexpected-keys list holds exactly those keys in the order of
\* the input, and none of them is a key of the remapped dictionary.
C2_AsStated ==
    (Mapped /\ ~(KeySet(MapIn) \subseteq DOMAIN MapKeyMap)) =>
        /\ last.ret.unexpected_keys = KeysOutside(MapIn, DOMAIN MapKeyMap)
        /\ \A k \in Range(last.ret.unexpected_keys) : k \notin KeySet(MapOut)

\* C2 amended: for a weight dictionary with keys outside the name map's
\* domain, the unexpected-keys list holds exactly those keys in the order of
\* the input, and no entry of the remapped dictionary comes from them: every
\* entry is name_map[k] with the value of an input key k inside the domain.
\* An unexpected key is a key of the remapped dictionary only when it is the
\* descriptive name of an input key inside the domain.
C2_Unexpected ==
    (Mapped /\ ~(KeySet(MapIn) \subseteq DOMAIN MapKeyMap)) =>
        /\ last.ret.unexpected_keys = KeysOutside(MapIn, DOMAIN MapKeyMap)
        /\ \A n \in KeySet(MapOut) :
              \E k \in KeySet(MapIn) \cap DOMAIN MapKeyMap :
                 /\ MapKeyMap[k] = n
                 /\ DictGet(MapOut, n) = DictGet(MapIn, k)
        /\ Len(MapOut) <= Cardinality(KeySet(MapIn) \cap DOMAIN MapKeyMap)
        /\ \A k \in Range(last.ret.unexpected_keys) :
              k \in KeySet(MapOut) =>
                 \E k2 \in KeySet(MapIn) \cap DOMAIN MapKeyMap : MapKeyMap[k2] = k

\* Two unexpected keys around a nonempty map.
C2_Witness ==
    /\ Mapped
    /\ Len(last.ret.unexpected_keys) = 2
    /\ DOMAIN MapKeyMap # {}

Loaded == last.op = "load_state_dict"

LoadedFromUrl == last.op = "load_state_dict_from_url"

Params == Range(ParamNames(pre.modules))

\* What this call hands to the inherited routine.
HandedOver ==
    IF last.args.map_names
        THEN map_state_dict_keys(pre.state_dict_key_map, last.args.state_dict).remapped_state_dict
        ELSE last.args.state_dict

\* The unexpected keys the remapping step finds, and those the inherited
\* routine reports, each list in the order of its dictionary.
Detected == KeysOutside(last.args.state_dict, DOMAIN pre.state_dict_key_map)

Reported == KeysOutside(HandedOver, Params)

\* C3 as stated: with name remapping enabled, the returned unexpected-keys
\* list starts with the keys the remapping step detected, followed by the
\* keys the inherited load routine reports.
C3_AsStated ==
    (Loaded /\ last.args.map_names /\ last.raised = "none") =>
        last.ret.unexpected_keys = Detected \o Reported

\* C3 amended: with name remapping enabled, the returned unexpected-keys list
\* starts with the keys the inherited load routine reports, followed by the
\* keys the remapping step detected (absent from the name map).
C3_Order ==
    (Loaded /\ last.args.map_names /\ last.raised = "none") =>
        last.ret.unexpected_keys = Reported \o Detected

\* A lenient load with a key of each sort, where the order shows.
C3_Witness ==
    /\ Loaded
    /\ last.args.map_names
    /\ last.raised = "none"
    /\ Detected # <<>>
    /\ Reported # <<>>
    /\ Detected \o Reported # Reported \o Detected

\* C4: select_url(urls, key) returns urls[key] when key is in urls; when it
\* is not, it raises the "No URL is available" error whose message ends in
\* format(key), with str for format when none is given, and returns nothing.
C4_SelectUrl ==
    (last.op = "select_url") =>
        LET urls == last.args.urls
            key == last.args.key
            shown == IF last.args.format = <<>> THEN Str(key)
                     ELSE ApplyFormat(last.args.format[1], key)
        IN  /\ key \in DOMAIN urls =>
                  /\ last.raised = "none"
                  /\ last.ret.value = urls[key]
            /\ key \notin DOMAIN urls =>
                  /\ last.raised = "RuntimeError"
                  /\ last.ret.value = ""
                  /\ last.ret.message = <<"No URL is available for\n\n", shown>>

\* An absent key shown by a caller's format function.
C4_Witness ==
    /\ last.op = "select_url"
    /\ last.args.key \notin DOMAIN last.args.urls
    /\ DOMAIN last.args.urls # {}
    /\ last.args.format = <<"repr">>
    /\ last.raised = "RuntimeError"

\* The parameters the encoder requires that the handed-over dictionary lacks.
Lacking == {p \in Params : p \notin KeySet(HandedOver)}

\* C5: a strict load of a dictionary that, after remapping, lacks a required
\* parameter raises; the lenient load of the same dictionary returns, with
\* that parameter among its missing keys; the missing keys returned are the
\* ones the inherited load routine computes on the remapped dictionary.
C5_Missing ==
    Loaded =>
        LET lenient == load_state_dict(pre, last.args.state_dict, FALSE,
                                       last.args.map_names, last.args.framework)
            inherited == SuperLoadStateDict(ParamNames(pre.modules), pre.weights,
                                            HandedOver, last.args.strict)
        IN  /\ (last.args.strict /\ Lacking # {}) =>
                  /\ last.raised = "RuntimeError"
                  /\ lenient.raised = "none"
                  /\ Lacking \subseteq Range(lenient.missing_keys)
            /\ ~last.args.strict =>
                  /\ last.raised = "none"
                  /\ Range(last.ret.missing_keys) = Lacking
            /\ last.raised = "none" => last.ret.missing_keys = inherited.missing_keys

\* A strict load that raises over a parameter lost in the remapping.
C5_Witness ==
    /\ Loaded
    /\ last.args.strict
    /\ last.args.map_names
    /\ last.raised = "RuntimeError"
    /\ Lacking # {}
    /\ Lacking \subseteq KeySet(last.args.state_dict)

\* C6: after a load_state_dict_from_url(framework) that returns, pretrained
\* is true and the framework identifier is the framework passed, whatever
\* they were before; this covers the call the constructor makes.
C6_FromUrl ==
    /\ (LoadedFromUrl /\ last.raised = "none") =>
          /\ encoder.pretrained
          /\ encoder.framework = last.args.framework
    /\ (last.op = "__init__" /\ last.raised = "none"
           /\ OrDefault(last.args.pretrained, TRUE)) =>
          /\ encoder.pretrained
          /\ encoder.framework = OrDefault(last.args.framework, "torch")

\* A download-and-load on an encoder that held weights of another origin.
C6_Witness ==
    /\ LoadedFromUrl
    /\ last.raised = "none"
    /\ pre.pretrained
    /\ pre.framework = "unknown"
    /\ last.args.framework = "caffe"

\* C7: once the encoder is constructed, pretrained and framework change only
\* in load_state_dict or load_state_dict_from_url; the name map and the flags
\* internal_preprocessing and allow_inplace never change; and
\* _map_state_dict_keys and _properties change nothing of the encoder.
C7_Frame ==
    [][pc # "new" =>
          /\ (\/ encoder'.pretrained # encoder.pretrained
              \/ encoder'.framework # encoder.framework) =>
                 last'.op \in {"load_state_dict", "load_state_dict_from_url"}
          /\ encoder'.state_dict_key_map = encoder.state_dict_key_map
          /\ encoder'.internal_preprocessing = encoder.internal_preprocessing
          /\ encoder'.allow_inplace = encoder.allow_inplace
          /\ last'.op \in {"_map_state_dict_keys", "_properties"} => encoder' = encoder
    ]_vars

\* An encoder built with pretrained=False for caffe, remapping a dictionary
\* whose key is in its name map.
C7_Witness ==
    /\ Mapped
    /\ ~encoder.pretrained
    /\ encoder.framework = "caffe"
    /\ KeySet(MapIn) \cap DOMAIN encoder.state_dict_key_map # {}
    /\ encoder = pre

\* C8: the framework label passed to load_state_dict decides nothing but the
\* framework identifier recorded: under any other label the same call on the
\* same encoder raises or returns alike, with the same missing and unexpected
\* keys and the same weights loaded.
C8_Label ==
    Loaded =>
        \A fw \in FrameworkLabels :
            LET other == load_state_dict(pre, last.args.state_dict, last.args.strict,
                                         last.args.map_names, fw)
            IN  /\ other.raised = last.raised
                /\ other.missing_keys = last.ret.missing_keys
                /\ other.unexpected_keys = last.ret.unexpected_keys
                /\ other.self.weights = encoder.weights
                /\ last.raised = "none" => other.self = [encoder EXCEPT !.framework = fw]
                /\ last.raised # "none" => other.self = encoder

\* A strict load labelled "unknown" that raises after loading a weight.
C8_Witness ==
    /\ Loaded
    /\ last.args.framework = "unknown"
    /\ last.args.strict
    /\ last.raised = "RuntimeError"
    /\ encoder.weights # pre.weights

\* C9: an encoder constructed without allow_inplace has allow_inplace False,
\* and no inplace operation is requested from collect_modules.
C9_DefaultInplace ==
    (last.op = "__init__" /\ last.raised = "none" /\ last.args.allow_inplace = <<>>) =>
        /\ ~encoder.allow_inplace
        /\ \A i \in 1..Len(encoder.modules) : encoder.modules[i].arg # "inplace"

\* C10: a load that raises leaves pretrained and framework as they were, and
\* load_state_dict_from_url resolves the URL first: without a URL for the
\* framework it raises and nothing is downloaded.
C10_Failed ==
    /\ ((Loaded \/ LoadedFromUrl) /\ last.raised # "none") =>
          /\ encoder.pretrained = pre.pretrained
          /\ encoder.framework = pre.framework
    /\ (LoadedFromUrl /\ last.args.framework \notin DOMAIN subclass.urls) =>
          /\ last.raised = "RuntimeError"
          /\ last.ret.downloaded = <<>>
    /\ (LoadedFromUrl /\ last.raised = "none") => last.ret.downloaded # <<>>

\* A strict download-and-load that raises on an encoder without weights.
C10_Witness ==
    /\ LoadedFromUrl
    /\ last.raised = "RuntimeError"
    /\ last.ret.downloaded # <<>>
    /\ ~pre.pretrained
    /\ pre.framework # last.args.framework

====
